---------------------------- MODULE Spec2Model ----------------------------
(***************************************************************************)
(* A model of gloo-net's http layer (crates/net/src/http): the header      *)
(* codec (headers.rs), the Body variant (body.rs), RequestBuilder/Request  *)
(* (request.rs) and ResponseBuilder/Response (response.rs), together with  *)
(* the host objects they drive (Headers, Request, Response, fetch) as the  *)
(* Fetch standard defines them.                                            *)
(*                                                                         *)
(* A header value is a sequence of segments drawn from a small alphabet:   *)
(*   "a", "b", "text/plain", "application/json"                            *)
(*             runs of visible ASCII other than space and comma            *)
(*   " "       the space (visible ASCII, HTTP whitespace)                  *)
(*   ","       the comma (visible ASCII)                                   *)
(*   "o"       an opaque byte 0x80..0xFF (a valid HeaderValue byte that    *)
(*             is not visible ASCII)                                       *)
(*   "c"       a control byte such as 0x01 (not a valid HeaderValue byte,  *)
(*             but one a host header value may hold)                       *)
(***************************************************************************)
EXTENDS Integers, Sequences, FiniteSets, TLC

VARIABLES
    pc,        \* which value the calling task currently owns
    builder,   \* the RequestBuilder {url, init}
    request,   \* the Request {url, init}
    fetching,  \* the host request handed to fetch while send() awaits
    rbuilder,  \* the ResponseBuilder {body, init}
    host,      \* the host-native response object (web_sys::Response)
    resps,     \* the Response wrappers {raw, init} made around `host`
    rawHeld,   \* the caller holds a web_sys::Response handle (after into_raw)
    result,    \* what the last fallible operation returned
    last,      \* the last builder operation and its arguments
    codec      \* the last direct application of the header codec

vars == <<pc, builder, request, fetching, rbuilder, host, resps, rawHeld,
          result, last, codec>>

----------------------------------------------------------------------------
(* Bounds of the model. *)

\* the longest iterator handed to the bulk headers(...) setter
MaxIter == 2
\* how many Response wrappers are made around one host response
MaxWrappers == 3

----------------------------------------------------------------------------
(* Header names and values. *)

CONTENT_TYPE == "content-type"
SET_COOKIE == "set-cookie"
X_A == "x-a"

\* the names a caller of the builders uses
Names == {CONTENT_TYPE, X_A}
\* every name a header map is indexed by
AllNames == Names \cup {SET_COOKIE}

VA == <<"a">>
VB == <<"b">>
VOpaque == <<"o">>
VControl == <<"c">>
VPadded == <<" ", "a">>
APPLICATION_JSON == <<"application/json">>
TEXT_PLAIN == <<"text/plain">>

\* HeaderValue::from_bytes: bytes >= 32 other than 127, or tab
IsValidValueByte(ch) == ch # "c"

\* HeaderValue::to_str: only visible ASCII (32..126) or tab
IsVisibleAscii(ch) == ch \notin {"o", "c"}

\* HeaderValue::from_str / TryInto<HeaderValue>: Ok iff every byte is valid
HeaderValue_from_str(s) ==
    IF \A i \in 1..Len(s) : IsValidValueByte(s[i])
    THEN [tag |-> "Ok", val |-> s]
    ELSE [tag |-> "Err", val |-> <<>>]

\* HeaderValue::to_str: Ok iff every byte is visible ASCII
HeaderValue_to_str(v) ==
    IF \A i \in 1..Len(v) : IsVisibleAscii(v[i])
    THEN [tag |-> "Ok", val |-> v]
    ELSE [tag |-> "Err", val |-> <<>>]

\* http::HeaderMap::new
HeaderMap_new == [n \in AllNames |-> <<>>]

\* http::HeaderMap::append: adds a value under the name, keeping the others
HeaderMap_append(m, n, v) == [m EXCEPT ![n] = Append(@, v)]

\* http::HeaderMap::insert: the value replaces all values under the name
HeaderMap_insert(m, n, v) == [m EXCEPT ![n] = <<v>>]

\* FromIterator for HeaderMap: every item of the iterator is appended
RECURSIVE HeaderMap_collect(_)
HeaderMap_collect(items) ==
    IF items = <<>> THEN HeaderMap_new
    ELSE HeaderMap_append(HeaderMap_collect(SubSeq(items, 1, Len(items) - 1)),
                          items[Len(items)][1], items[Len(items)][2])

\* the (name, value) pairs of a header map, as a set
Pairs(m) == UNION {{<<n, m[n][i]>> : i \in 1..Len(m[n])} : n \in AllNames}

----------------------------------------------------------------------------
(* The host's Headers object (Fetch standard, "header list"): the values   *)
(* appended under each name, in the order they were appended.              *)

\* new Headers()
Headers_new == [n \in AllNames |-> <<>>]

\* the host normalizes a value: leading and trailing HTTP whitespace go
RECURSIVE Normalize(_)
Normalize(v) ==
    IF v = <<>> THEN v
    ELSE IF Head(v) = " " THEN Normalize(Tail(v))
    ELSE IF v[Len(v)] = " " THEN Normalize(SubSeq(v, 1, Len(v) - 1))
    ELSE v

\* Headers.append(name, value): the normalized value joins the list. The host
\* throws only for a name that is no token or a value holding NUL, CR or LF,
\* and neither a HeaderName nor a HeaderValue can hold those.
Headers_append(h, n, v) == [h EXCEPT ![n] = Append(@, Normalize(v))]

\* the host combines the values of one name with ", "
RECURSIVE Combine(_)
Combine(vals) ==
    IF Len(vals) = 1 THEN vals[1]
    ELSE Combine(SubSeq(vals, 1, Len(vals) - 1)) \o <<",", " ">> \o vals[Len(vals)]

\* names in the order the host's iteration sorts them
SortedNames == <<CONTENT_TYPE, SET_COOKIE, X_A>>

\* the entries the host yields for one name: one combined entry, except for
\* set-cookie, whose values are yielded one by one
EntriesOf(h, n) ==
    IF h[n] = <<>> THEN <<>>
    ELSE IF n = SET_COOKIE THEN [i \in 1..Len(h[n]) |-> <<n, h[n][i]>>]
    ELSE << <<n, Combine(h[n])>> >>

\* Headers.entries(): "sort and combine"
Headers_entries(h) ==
    EntriesOf(h, SortedNames[1]) \o EntriesOf(h, SortedNames[2])
        \o EntriesOf(h, SortedNames[3])

----------------------------------------------------------------------------
(* headers.rs *)

\* every value of the map, appended in turn to a fresh host Headers
RECURSIVE AppendAll(_, _, _)
AppendAll(h, n, vals) ==
    IF vals = <<>> THEN h
    ELSE AppendAll(Headers_append(h, n, HeaderValue_to_str(Head(vals)).val),
                   n, Tail(vals))

\* headers_to_js: value.to_str().unwrap() panics on a value that is not
\* visible ASCII
headers_to_js(headers) ==
    IF \E n \in AllNames : \E i \in 1..Len(headers[n]) :
           HeaderValue_to_str(headers[n][i]).tag = "Err"
    THEN [tag |-> "Panic", val |-> Headers_new]
    ELSE [tag |-> "Ok",
          val |-> AppendAll(AppendAll(AppendAll(Headers_new,
                      SortedNames[1], headers[SortedNames[1]]),
                      SortedNames[2], headers[SortedNames[2]]),
                      SortedNames[3], headers[SortedNames[3]])]

\* headers_from_js: HeaderValue::from_str(..).unwrap() panics on an entry
\* whose value is not a valid header value; the rest is collected
headers_from_js(headers) ==
    LET entries == Headers_entries(headers)
    IN  IF \E i \in 1..Len(entries) :
               HeaderValue_from_str(entries[i][2]).tag = "Err"
        THEN [tag |-> "Panic", val |-> HeaderMap_new]
        ELSE [tag |-> "Ok", val |-> HeaderMap_collect(entries)]

----------------------------------------------------------------------------
(* body.rs *)

NoBody == [kind |-> "None", data |-> ""]

\* Body::Text
Body_Text(text) == [kind |-> "Text", data |-> text]

\* Body::ReadableStream / From<ReadableStream> for Body: the stream is held
\* by reference, in whatever state the host object is in
Body_ReadableStream(stream) == [kind |-> "ReadableStream", data |-> stream]

\* the text bodies callers pass
Texts == {"x", "{\"a\":1}"}
\* a host ReadableStream is readable, or already disturbed or locked
Streams == {"readable", "disturbed"}
\* what reading a readable stream of the model to its end yields
StreamContent == "x"

Bodies == {Body_Text(t) : t \in Texts} \cup {Body_ReadableStream(st) : st \in Streams}

----------------------------------------------------------------------------
(* request.rs: RequestBuilder *)

Methods == {"GET", "POST"}
Urls == {"/path"}

RequestCaches == {"Default", "NoStore"}
RequestCredentialses == {"Omit", "Include"}
Integrities == {"", "sha256-x"}
RequestModes == {"Cors", "NoCors"}
RequestRedirects == {"Follow", "Error"}
Referrers == {"about:client", ""}
ReferrerPolicies == {"None", "NoReferrer"}

\* the header values a caller passes: HeaderValue admits opaque bytes
Values == {VA, VOpaque}
\* what a caller passes to try_header: any string
RawValues == Values \cup {VControl}

\* the iterators a caller hands to headers(...)
RECURSIVE SeqsUpTo(_, _)
SeqsUpTo(S, k) ==
    IF k = 0 THEN {<<>>}
    ELSE LET shorter == SeqsUpTo(S, k - 1)
         IN  shorter \cup {Append(q, x) : q \in shorter, x \in S}

Iters == SeqsUpTo(Names \X Values, MaxIter)

Moved == [moved |-> TRUE]

\* what a ResponseBuilder chain was given so far: the body of the most recent
\* body/text/readable_stream/json call, the map of the most recent headers
\* call, and whether json was called after that
NoChain == [body |-> NoBody, headers |-> HeaderMap_new, json |-> FALSE]

NoOp == [op |-> "none", name |-> "", value |-> <<>>, many |-> FALSE, fresh |-> FALSE,
         json |-> "", chain |-> NoChain]

\* a setter was called: the chain is no longer the freshly made builder
Setter(op) ==
    [op |-> op, name |-> "", value |-> <<>>, many |-> FALSE, fresh |-> FALSE, json |-> "",
     chain |-> NoChain]

\* any other setter of a RequestBuilder chain
Other == Setter("setter")

\* a setter that overwrites the field it is named after with the value given
Set(op, v) == [Setter(op) EXCEPT !.value = v]

\* header or try_header, and whether the name held several values before it
HeaderOp(op, n, v) ==
    [op |-> op, name |-> n, value |-> v,
     many |-> Len(builder.init.headers[n]) > 1,
     fresh |-> FALSE, json |-> "", chain |-> NoChain]

\* an operation on a built value: it remembers whether any setter came before
\* it, and the value json(...) serialized if that was the last setter
Terminal(op) ==
    [op |-> op, name |-> "", value |-> <<>>, many |-> FALSE, fresh |-> last.fresh,
     json |-> last.json, chain |-> NoChain]

NoResult == [op |-> "none", tag |-> "none", val |-> ""]

\* RequestBuilder::new's RequestInit with a mode other than the documented one
RequestInit_otherMode(method) ==
    [method |-> method, headers |-> HeaderMap_new, body |-> NoBody,
     cache |-> "Default", credentials |-> "Omit", integrity |-> "",
     mode |-> "NoCors", redirect |-> "Follow", referrer |-> "about:client",
     referrer_policy |-> "None"]

\* RequestBuilder::new: the RequestInit a new builder starts from
RequestInit_new(method) ==
    [method |-> method, headers |-> HeaderMap_new, body |-> NoBody,
     cache |-> "Default", credentials |-> "Omit", integrity |-> "",
     mode |-> "Cors", redirect |-> "Follow", referrer |-> "about:client",
     referrer_policy |-> "None"]

\* the calling task goes from one owned value to the next
Step(to, res, op) ==
    /\ pc' = to
    /\ result' = res
    /\ last' = op

RequestBuilder_new(method, url) ==
    /\ pc = "start"
    /\ builder' = [url |-> url, init |-> RequestInit_new(method)]
    /\ Step("RequestBuilder", NoResult,
            [op |-> "new", name |-> "", value |-> <<>>, many |-> FALSE, fresh |-> TRUE,
             json |-> "", chain |-> NoChain])
    /\ UNCHANGED <<request, fetching, rbuilder, host, resps, rawHeld, codec>>

\* gen_method!: RequestBuilder::get(url), ::post(url), ...
gen_method(method, url) == RequestBuilder_new(method, url)

\* a setter of the chain: the builder is moved in and handed back
Chain(b, op) ==
    /\ pc = "RequestBuilder"
    /\ builder' = b
    /\ Step("RequestBuilder", NoResult, op)
    /\ UNCHANGED <<request, fetching, rbuilder, host, resps, rawHeld, codec>>

RequestBuilder_headers(headers) ==
    Chain([builder EXCEPT !.init.headers = HeaderMap_collect(headers)],
          Setter("headers"))

\* header(...) with append in place of insert
header_appending(name, value) ==
    Chain([builder EXCEPT !.init.headers = HeaderMap_append(@, name, value)],
          HeaderOp("header", name, value))

RequestBuilder_header(name, value) ==
    Chain([builder EXCEPT !.init.headers = HeaderMap_insert(@, name, value)],
          HeaderOp("header", name, value))

\* try_header: value.try_into()? returns the error and drops the builder
RequestBuilder_try_header(name, value) ==
    LET v == HeaderValue_from_str(value)
    IN  IF v.tag = "Ok"
        THEN Chain([builder EXCEPT !.init.headers = HeaderMap_insert(@, name, v.val)],
                   HeaderOp("try_header", name, v.val))
        ELSE /\ pc = "RequestBuilder"
             /\ builder' = Moved
             /\ Step("done", [op |-> "try_header", tag |-> "Err",
                              val |-> "InvalidHeaderValue"],
                     HeaderOp("try_header", name, value))
             /\ UNCHANGED <<request, fetching, rbuilder, host, resps, rawHeld, codec>>

\* try_header_unchecked: value.try_into().unwrap()
RequestBuilder_try_header_unchecked(name, value) ==
    LET v == HeaderValue_from_str(value)
    IN  IF v.tag = "Ok"
        THEN Chain([builder EXCEPT !.init.headers = HeaderMap_insert(@, name, v.val)],
                   Other)
        ELSE /\ pc = "RequestBuilder"
             /\ builder' = Moved
             /\ Step("done", [op |-> "try_header_unchecked", tag |-> "Panic",
                              val |-> "InvalidHeaderValue"],
                     Other)
             /\ UNCHANGED <<request, fetching, rbuilder, host, resps, rawHeld, codec>>

RequestBuilder_cache(cache) ==
    Chain([builder EXCEPT !.init.cache = cache], Set("cache", cache))

RequestBuilder_credentials(credentials) ==
    Chain([builder EXCEPT !.init.credentials = credentials], Set("credentials", credentials))

RequestBuilder_integrity(integrity) ==
    Chain([builder EXCEPT !.init.integrity = integrity], Set("integrity", integrity))

RequestBuilder_mode(mode) ==
    Chain([builder EXCEPT !.init.mode = mode], Set("mode", mode))

RequestBuilder_redirect(redirect) ==
    Chain([builder EXCEPT !.init.redirect = redirect], Set("redirect", redirect))

RequestBuilder_referrer(referrer) ==
    Chain([builder EXCEPT !.init.referrer = referrer], Set("referrer", referrer))

RequestBuilder_referrer_policy(referrer_policy) ==
    Chain([builder EXCEPT !.init.referrer_policy = referrer_policy], Set("referrer_policy", referrer_policy))

\* a terminal operation: the builder is consumed and a Request comes out
Finish(r, op) ==
    /\ pc = "RequestBuilder"
    /\ builder' = Moved
    /\ request' = r
    /\ Step("Request", NoResult, op)
    /\ UNCHANGED <<fetching, rbuilder, host, resps, rawHeld, codec>>

\* build: Request {url: self.url, init: self.init}
build_of(b) == [url |-> b.url, init |-> b.init]

RequestBuilder_build == Finish(build_of(builder), Terminal("build"))

\* body(...) on a RequestInit made anew instead of ..self.init
body_of_new(b, body) ==
    [url |-> b.url, init |-> [RequestInit_new(b.init.method) EXCEPT !.body = body]]

\* body: Request {url, init: RequestInit {body: Some(body), ..self.init}}
body_of(b, body) == [url |-> b.url, init |-> [b.init EXCEPT !.body = body]]

RequestBuilder_body(body) ==
    Finish(body_of(builder, body), [Terminal("body") EXCEPT !.value = body])

\* text: self.body(Body::Text(text.into()))
RequestBuilder_text(text) == RequestBuilder_body(Body_Text(text))

\* the values handed to json(...): one that serializes, one that does not
JsonValues == {"obj", "unserializable"}

\* serde_json::to_string
serde_json_to_string(value) ==
    IF value = "obj" THEN [tag |-> "Ok", val |-> "{\"a\":1}"]
    ELSE [tag |-> "Err", val |-> ""]

\* json: serde_json::to_string(value)? then self.text(json)
RequestBuilder_json(value) ==
    LET json == serde_json_to_string(value)
    IN  IF json.tag = "Ok"
        THEN RequestBuilder_text(json.val)
        ELSE /\ pc = "RequestBuilder"
             /\ builder' = Moved
             /\ Step("done", [op |-> "RequestBuilder::json", tag |-> "Err",
                              val |-> "SerdeError"],
                     Terminal("RequestBuilder::json"))
             /\ UNCHANGED <<request, fetching, rbuilder, host, resps, rawHeld, codec>>

----------------------------------------------------------------------------
(* The host's side of a request and of a response (Fetch standard). *)

\* new Request(url, init) throws a TypeError for a body on a GET and for a
\* stream that is disturbed or locked; whether it throws for another reason
\* (a URL it cannot parse, a policy it refuses) is the host's choice
HostRequest_throws(url, init, refused) ==
    \/ refused
    \/ init.method = "GET" /\ init.body.kind # "None"
    \/ init.body.kind = "ReadableStream" /\ init.body.data = "disturbed"

\* statuses whose response cannot carry a body
NullBodyStatus == {101, 103, 204, 205, 304}

\* a status text that is no reason-phrase
InvalidStatusText == "\n"

NullStream == [kind |-> "null", data |-> "", used |-> FALSE]

\* a response body: a stream over the data, unread
Stream(data) == [kind |-> "stream", data |-> data, used |-> FALSE]

\* the response header guard drops forbidden response-header names
GuardResponse(h) == [h EXCEPT ![SET_COOKIE] = <<>>]

\* new Response(body, init): a RangeError for a status outside 200..599, a
\* TypeError for a bad status text, for a body on a null-body status and for
\* a stream that is disturbed or locked; a string body brings its type along
\* unless the headers name one
HostResponse_new(body, headers, status, statusText) ==
    IF status < 200 \/ status > 599
    THEN [tag |-> "Err", val |-> "RangeError"]
    ELSE IF statusText = InvalidStatusText
    THEN [tag |-> "Err", val |-> "TypeError"]
    ELSE IF body.kind # "None" /\ status \in NullBodyStatus
    THEN [tag |-> "Err", val |-> "TypeError"]
    ELSE IF body.kind = "ReadableStream" /\ body.data = "disturbed"
    THEN [tag |-> "Err", val |-> "TypeError"]
    ELSE [tag |-> "Ok",
          val |-> [status |-> status, statusText |-> statusText,
                   headers |->
                       IF body.kind = "Text" /\ headers[CONTENT_TYPE] = <<>>
                       THEN Headers_append(GuardResponse(headers), CONTENT_TYPE,
                                           TEXT_PLAIN)
                       ELSE GuardResponse(headers),
                   body |-> CASE body.kind = "None" -> NullStream
                              [] body.kind = "Text" -> Stream(body.data)
                              [] OTHER -> Stream(StreamContent)]]

\* header lists a host response arrives with
HostHeaderLists ==
    {Headers_new,
     [Headers_new EXCEPT ![CONTENT_TYPE] = <<TEXT_PLAIN>>],
     [Headers_new EXCEPT ![X_A] = <<VA, VB>>],
     [Headers_new EXCEPT ![X_A] = <<VControl>>]}

\* the responses fetch resolves with: status 0 is the opaque or error
\* response, which has no headers and no body
HostStatuses == {0, 200, 204, 404}

HostBodies == {NullStream} \cup {Stream(t) : t \in Texts \cup {""}}

HostReplies ==
    {r \in [status : HostStatuses, statusText : {"", "OK"},
            headers : HostHeaderLists, body : HostBodies] :
        /\ (r.statusText = "OK") = (r.status = 200)
        /\ r.status \in NullBodyStatus \cup {0} => r.body = NullStream
        /\ r.status = 0 => r.headers = Headers_new}

NoHost == [status |-> 0, statusText |-> "", headers |-> Headers_new,
           body |-> NullStream]

----------------------------------------------------------------------------
(* response.rs: ResponseOptions and Response::from_raw *)

\* http::StatusCode::default()
StatusCode_default == 200

\* http::StatusCode::from_u16: Ok for 100..=999
StatusCode_from_u16(n) ==
    IF n >= 100 /\ n < 1000 THEN [tag |-> "Ok", val |-> n]
    ELSE [tag |-> "Err", val |-> 0]

\* Result::unwrap_or_default
unwrap_or_default(r) == IF r.tag = "Ok" THEN r.val ELSE StatusCode_default

NoOptions == [headers |-> HeaderMap_new, status_code |-> 0, status_text |-> ""]

\* ResponseOptions::from_raw: headers, status and statusText are read off the
\* host object; the status goes through StatusCode::from_u16
ResponseOptions_from_raw(raw) ==
    LET headers == headers_from_js(raw.headers)
    IN  IF headers.tag = "Panic" THEN [tag |-> "Panic", val |-> NoOptions]
        ELSE [tag |-> "Ok",
              val |-> [headers |-> headers.val,
                       status_code |-> unwrap_or_default(StatusCode_from_u16(raw.status)),
                       status_text |-> raw.statusText]]

Wrappers == 1..MaxWrappers

NoResponse == [st |-> "none", init |-> NoOptions, n |-> 0]

\* a Response {raw, init} the calling task owns, with no extraction yet
Response_of(init) == [st |-> "live", init |-> init, n |-> 0]

NoResponses == [i \in Wrappers |-> NoResponse]

\* Response::status_code / status_text / headers read the cached init
Response_status_code(r) == r.init.status_code

Response_status_text(r) == r.init.status_text

Response_headers(r) == r.init.headers

\* js_to_error (crate root): the Error that carries the host's value
js_to_error(value) == [error |-> "JsError", payload |-> value]

----------------------------------------------------------------------------
(* request.rs: Request::send and From<web_sys::Request> *)

\* Request::send up to its await. self.init.into() runs headers_to_js, which
\* panics before the host sees the request; new Request(..) throws and the
\* error is returned; window().unwrap() panics where there is no window;
\* otherwise fetch is called with the host request. `window` and `refused`
\* are the host's: whether there is a window, whether it refuses the request
send_of(r, window, refused) ==
    IF headers_to_js(r.init.headers).tag = "Panic"
    THEN [to |-> "done", fetching |-> fetching,
          res |-> [op |-> "send", tag |-> "Panic", val |-> "to_str"]]
    ELSE IF HostRequest_throws(r.url, r.init, refused)
    THEN [to |-> "done", fetching |-> fetching,
          res |-> [op |-> "send", tag |-> "Err", val |-> js_to_error("TypeError")]]
    ELSE IF ~window
    THEN [to |-> "done", fetching |-> fetching,
          res |-> [op |-> "send", tag |-> "Panic", val |-> "window"]]
    ELSE [to |-> "fetch", res |-> NoResult,
          fetching |-> [url |-> r.url, method |-> r.init.method]]

Request_send(window, refused) ==
    /\ pc = "Request"
    /\ request' = Moved
    /\ LET out == send_of(request, window, refused)
       IN  /\ Step(out.to, out.res, Terminal("send"))
           /\ fetching' = out.fetching
    /\ UNCHANGED <<builder, rbuilder, host, resps, rawHeld, codec>>

\* RequestBuilder::send: self.build().send()
RequestBuilder_send(window, refused) ==
    /\ pc = "RequestBuilder"
    /\ builder' = Moved
    /\ LET out == send_of(build_of(builder), window, refused)
       IN  /\ Step(out.to, out.res, Terminal("send"))
           /\ fetching' = out.fetching
    /\ UNCHANGED <<request, rbuilder, host, resps, rawHeld, codec>>

\* the fetch promise rejects: .await.map_err(js_to_error)?
Fetch_reject ==
    /\ pc = "fetch"
    /\ fetching' = Moved
    /\ Step("done", [op |-> "send", tag |-> "Err", val |-> js_to_error("NetworkError")],
            Terminal("send"))
    /\ UNCHANGED <<builder, request, rbuilder, host, resps, rawHeld, codec>>

\* a host response becomes a Response: Response::from_raw(raw)
Wrap(raw, op) ==
    LET init == ResponseOptions_from_raw(raw)
    IN  /\ host' = raw
        /\ IF init.tag = "Panic"
           THEN /\ Step("done", [op |-> op, tag |-> "Panic", val |-> "from_str"],
                        Terminal(op))
                /\ UNCHANGED resps
           ELSE /\ Step("Response", [op |-> op, tag |-> "Ok", val |-> ""],
                        Terminal(op))
                /\ resps' = [NoResponses EXCEPT ![1] = Response_of(init.val)]

\* the fetch promise resolves: Ok(Response::from(resp.dyn_into().unwrap()))
Fetch_resolve(reply) ==
    /\ pc = "fetch"
    /\ fetching' = Moved
    /\ Wrap(reply, "send")
    /\ UNCHANGED <<builder, request, rbuilder, rawHeld, codec>>

\* the host requests From<web_sys::Request> is given
HostRequests ==
    [url : {"/path"}, method : {"GET"}, headers : HostHeaderLists,
     cache : {"Default"}, credentials : {"SameOrigin"}, integrity : {""},
     mode : {"Cors"}, redirect : {"Follow"}, referrer : {"about:client"},
     referrer_policy : {"None"}]

\* impl From<web_sys::Request> for Request: every field is read off the host
\* request, the headers through headers_from_js; a host request made without
\* a body has none
Request_from(value) ==
    /\ pc = "start"
    /\ LET headers == headers_from_js(value.headers)
       IN  IF headers.tag = "Panic"
           THEN /\ Step("done", [op |-> "Request::from", tag |-> "Panic",
                                 val |-> "from_str"], Setter("Request::from"))
                /\ UNCHANGED request
           ELSE /\ Step("Request", NoResult, Setter("Request::from"))
                /\ request' =
                       [url |-> value.url,
                        init |-> [method |-> value.method,
                                  headers |-> headers.val,
                                  body |-> NoBody,
                                  cache |-> value.cache,
                                  credentials |-> value.credentials,
                                  integrity |-> value.integrity,
                                  mode |-> value.mode,
                                  redirect |-> value.redirect,
                                  referrer |-> value.referrer,
                                  referrer_policy |-> value.referrer_policy]]
    /\ UNCHANGED <<builder, fetching, rbuilder, host, resps, rawHeld, codec>>

----------------------------------------------------------------------------
(* response.rs: ResponseBuilder *)

StatusCodes == {101, 200, 204, 205, 304, 600}
StatusTexts == {"", "OK", InvalidStatusText}

\* the header maps a caller hands to ResponseBuilder::headers
HeaderMaps ==
    {HeaderMap_collect(it) : it \in Iters}
        \cup {[HeaderMap_new EXCEPT ![SET_COOKIE] = <<VA, VB>>]}

ResponseBuilder_new(status_code) ==
    /\ pc = "start"
    /\ rbuilder' = [body |-> NoBody,
                    init |-> [headers |-> HeaderMap_new,
                              status_code |-> status_code,
                              status_text |-> ""]]
    /\ Step("ResponseBuilder", NoResult, Setter("ResponseBuilder::new"))
    /\ UNCHANGED <<builder, request, fetching, host, resps, rawHeld, codec>>

\* Response::builder(status_code)
Response_builder(status_code) == ResponseBuilder_new(status_code)

\* a setter of the chain: the builder is moved in and handed back
RChain(b, op) ==
    /\ pc = "ResponseBuilder"
    /\ rbuilder' = b
    /\ Step("ResponseBuilder", NoResult, op)
    /\ UNCHANGED <<builder, request, fetching, host, resps, rawHeld, codec>>

\* a setter that touches neither the headers nor the body
Keeping(op) == [Setter(op) EXCEPT !.json = last.json, !.chain = last.chain]

\* a setter that replaces the header map
GaveHeaders(op, headers) ==
    [Setter(op) EXCEPT !.chain = [last.chain EXCEPT !.headers = headers,
                                                     !.json = FALSE]]

\* a setter that replaces the body
GaveBody(op, body) ==
    [Setter(op) EXCEPT !.chain = [last.chain EXCEPT !.body = body]]

\* headers(h) that keeps a Content-Type the builder already holds
headers_keeping_content_type(headers) ==
    RChain([rbuilder EXCEPT !.init.headers =
                IF @[CONTENT_TYPE] = <<>> THEN headers
                ELSE [headers EXCEPT ![CONTENT_TYPE] = rbuilder.init.headers[CONTENT_TYPE]]],
           GaveHeaders("headers", headers))

ResponseBuilder_status(status_code) ==
    RChain([rbuilder EXCEPT !.init.status_code = status_code], Keeping("status"))

ResponseBuilder_status_text(status_text) ==
    RChain([rbuilder EXCEPT !.init.status_text = status_text],
           Keeping("status_text"))

ResponseBuilder_headers(headers) ==
    RChain([rbuilder EXCEPT !.init.headers = headers], GaveHeaders("headers", headers))

ResponseBuilder_body(body) ==
    RChain([rbuilder EXCEPT !.body = body], GaveBody("body", body))

ResponseBuilder_text(text) ==
    RChain([rbuilder EXCEPT !.body = Body_Text(text)],
           GaveBody("text", Body_Text(text)))

ResponseBuilder_readable_stream(stream) ==
    RChain([rbuilder EXCEPT !.body = Body_ReadableStream(stream)],
           GaveBody("readable_stream", Body_ReadableStream(stream)))

\* json(...) with the Content-Type appended instead of inserted
json_appending(b, text) ==
    [body |-> Body_Text(text),
     init |-> [b.init EXCEPT !.headers =
                   HeaderMap_append(@, CONTENT_TYPE, APPLICATION_JSON)]]

\* json: the body is the serialized text and Content-Type is inserted
json_of(b, text) ==
    [body |-> Body_Text(text),
     init |-> [b.init EXCEPT !.headers =
                   HeaderMap_insert(@, CONTENT_TYPE, APPLICATION_JSON)]]

\* ResponseBuilder::json: serde_json::to_string(json).unwrap()
ResponseBuilder_json(json) ==
    LET text == serde_json_to_string(json)
    IN  IF text.tag = "Ok"
        THEN RChain(json_of(rbuilder, text.val),
                    [Setter("json") EXCEPT
                         !.json = json,
                         !.chain = [last.chain EXCEPT !.body = Body_Text(text.val),
                                                      !.json = TRUE]])
        ELSE /\ pc = "ResponseBuilder"
             /\ rbuilder' = Moved
             /\ Step("done", [op |-> "ResponseBuilder::json", tag |-> "Panic",
                              val |-> "SerdeError"],
                     Setter("json"))
             /\ UNCHANGED <<builder, request, fetching, host, resps, rawHeld, codec>>

\* build with the host's rejection unwrapped instead of returned
build_unwrapping(b) ==
    LET js == headers_to_js(b.init.headers)
        made == HostResponse_new(b.body, js.val, b.init.status_code,
                                 b.init.status_text)
    IN  IF js.tag = "Panic" \/ made.tag = "Err"
        THEN [tag |-> "Panic", val |-> "unwrap", raw |-> NoHost]
        ELSE [tag |-> "Ok", val |-> "", raw |-> made.val]

\* ResponseBuilder::build up to Response::from_raw: self.init.into() runs
\* headers_to_js, the host constructor is given the body (a string, a stream
\* or None) and the init, and its rejection is mapped with js_to_error
build_response(b) ==
    LET js == headers_to_js(b.init.headers)
        made == HostResponse_new(b.body, js.val, b.init.status_code,
                                 b.init.status_text)
    IN  IF js.tag = "Panic"
        THEN [tag |-> "Panic", val |-> "to_str", raw |-> NoHost]
        ELSE IF made.tag = "Err"
        THEN [tag |-> "Err", val |-> js_to_error(made.val), raw |-> NoHost]
        ELSE [tag |-> "Ok", val |-> "", raw |-> made.val]

ResponseBuilder_build ==
    /\ pc = "ResponseBuilder"
    /\ rbuilder' = Moved
    /\ LET made == build_response(rbuilder)
       IN  IF made.tag = "Ok"
           THEN Wrap(made.raw, "ResponseBuilder::build")
           ELSE /\ Step("done", [op |-> "ResponseBuilder::build", tag |-> made.tag,
                                 val |-> made.val],
                        Terminal("ResponseBuilder::build"))
                /\ UNCHANGED <<host, resps>>
    /\ UNCHANGED <<builder, request, fetching, rawHeld, codec>>

----------------------------------------------------------------------------
(* response.rs: Response *)

\* Response::from_raw on a host response the caller brings
Response_from_raw(raw) ==
    /\ pc = "start"
    /\ Wrap(raw, "from_raw")
    /\ UNCHANGED <<builder, request, fetching, rbuilder, rawHeld, codec>>

\* Response::into_raw(self): the wrapper is consumed, the handle is the caller's
Response_into_raw(i) ==
    /\ pc = "Response"
    /\ resps[i].st = "live"
    /\ resps' = [resps EXCEPT ![i].st = "moved"]
    /\ rawHeld' = TRUE
    /\ Step("Response", NoResult, Terminal("into_raw"))
    /\ UNCHANGED <<builder, request, fetching, rbuilder, host, codec>>

\* Response::from_raw on a clone of the handle into_raw gave back: another
\* wrapper around the same host response
Response_rewrap(i) ==
    /\ pc = "Response"
    /\ rawHeld
    /\ resps[i].st = "none"
    /\ \A j \in Wrappers : j < i => resps[j].st # "none"
    /\ resps' = [resps EXCEPT ![i] = Response_of(ResponseOptions_from_raw(host).val)]
    /\ Step("Response", NoResult, Terminal("from_raw"))
    /\ UNCHANGED <<builder, request, fetching, rbuilder, host, rawHeld, codec>>

\* an extraction that borrows the Response instead of consuming it
borrowed(r) == [r EXCEPT !.n = @ + 1]

\* body(self), text(self), json(self) take the Response by value
consumed(r) == [r EXCEPT !.st = "moved", !.n = @ + 1]

\* an extraction on wrapper i: what it returns and what it does to the host body
Extract(i, op, res, body) ==
    /\ pc = "Response"
    /\ resps[i].st = "live"
    /\ resps' = [resps EXCEPT ![i] = consumed(@)]
    /\ host' = [host EXCEPT !.body = body]
    /\ Step(IF res.tag = "Panic" THEN "done" ELSE "Response",
            [op |-> op, tag |-> res.tag, val |-> res.val], Terminal(op))
    /\ UNCHANGED <<builder, request, fetching, rbuilder, rawHeld, codec>>

\* Response::body: self.raw.body().unwrap_throw() aborts on a null body and
\* hands out the host's stream otherwise
body_outcome(raw) ==
    IF raw.body.kind = "null"
    THEN [tag |-> "Panic", val |-> "unwrap_throw"]
    ELSE [tag |-> "Ok", val |-> "ReadableStream"]

Response_body(i) == Extract(i, "body", body_outcome(host), host.body)

\* the host's text(): a used body rejects with a TypeError, a null body reads
\* as the empty string, a stream is read to its end
text_outcome(raw) ==
    IF raw.body.used
    THEN [tag |-> "Err", val |-> js_to_error("TypeError")]
    ELSE [tag |-> "Ok", val |-> raw.body.data]

\* the host marks a body it read as used; a null body has nothing to mark
read(body) == IF body.kind = "null" THEN body ELSE [body EXCEPT !.used = TRUE]

\* Response::text: self.raw.text(), awaited, the rejection mapped to an error
Response_text(i) == Extract(i, "text", text_outcome(host), read(host.body))

\* the texts the host parses as JSON
IsJson(text) == text = "{\"a\":1}"

\* the host's json(): as text(), then the parse; a parse failure rejects
json_outcome(raw) ==
    IF raw.body.used
    THEN [tag |-> "Err", val |-> js_to_error("TypeError")]
    ELSE IF IsJson(raw.body.data)
    THEN [tag |-> "Ok", val |-> raw.body.data]
    ELSE [tag |-> "Err", val |-> js_to_error("SyntaxError")]

\* Response::json: self.raw.json(), awaited, the rejection mapped to an error
Response_json(i) == Extract(i, "json", json_outcome(host), read(host.body))

----------------------------------------------------------------------------
(* The header codec applied directly. *)

\* the header maps the codec is applied to: up to MaxIter values over every
\* name, drawn from every kind of valid header value
CodecValues == {VA, VB, VOpaque, VPadded}

CodecMaps == {HeaderMap_collect(it) : it \in SeqsUpTo(AllNames \X CodecValues, MaxIter)}

\* the host header lists the decoder is applied to
CodecLists ==
    {Headers_append(Headers_append(Headers_new, p[1], p[2]), q[1], q[2]) :
        p \in AllNames \X {VA, VB, VControl}, q \in AllNames \X {VA, VB, VControl}}

NoCodec == [op |-> "none", in |-> HeaderMap_new, tag |-> "none", out |-> HeaderMap_new]

\* headers_from_js(headers_to_js(m))
round_trip(m) ==
    LET js == headers_to_js(m)
    IN  IF js.tag = "Panic" THEN js ELSE headers_from_js(js.val)

Codec_round_trip(m) ==
    /\ pc = "start"
    /\ codec' = [op |-> "round_trip", in |-> m, tag |-> round_trip(m).tag,
                 out |-> round_trip(m).val]
    /\ Step("done", NoResult, NoOp)
    /\ UNCHANGED <<builder, request, fetching, rbuilder, host, resps, rawHeld>>

Codec_decode(h) ==
    /\ pc = "start"
    /\ codec' = [op |-> "decode", in |-> h, tag |-> headers_from_js(h).tag,
                 out |-> headers_from_js(h).val]
    /\ Step("done", NoResult, NoOp)
    /\ UNCHANGED <<builder, request, fetching, rbuilder, host, resps, rawHeld>>

----------------------------------------------------------------------------
(* The specification. *)

Init ==
    /\ pc = "start"
    /\ builder = Moved
    /\ request = Moved
    /\ fetching = Moved
    /\ rbuilder = Moved
    /\ host = NoHost
    /\ resps = NoResponses
    /\ rawHeld = FALSE
    /\ result = NoResult
    /\ last = NoOp
    /\ codec = NoCodec

Next ==
    \/ \E method \in Methods, url \in Urls : RequestBuilder_new(method, url)
    \/ \E method \in Methods, url \in Urls : gen_method(method, url)
    \/ \E headers \in Iters : RequestBuilder_headers(headers)
    \/ \E name \in Names, value \in Values : RequestBuilder_header(name, value)
    \/ \E name \in Names, value \in RawValues : RequestBuilder_try_header(name, value)
    \/ \E name \in Names, value \in RawValues :
           RequestBuilder_try_header_unchecked(name, value)
    \/ \E cache \in RequestCaches : RequestBuilder_cache(cache)
    \/ \E credentials \in RequestCredentialses : RequestBuilder_credentials(credentials)
    \/ \E integrity \in Integrities : RequestBuilder_integrity(integrity)
    \/ \E mode \in RequestModes : RequestBuilder_mode(mode)
    \/ \E redirect \in RequestRedirects : RequestBuilder_redirect(redirect)
    \/ \E referrer \in Referrers : RequestBuilder_referrer(referrer)
    \/ \E policy \in ReferrerPolicies : RequestBuilder_referrer_policy(policy)
    \/ RequestBuilder_build
    \/ \E body \in Bodies : RequestBuilder_body(body)
    \/ \E text \in Texts : RequestBuilder_text(text)
    \/ \E value \in JsonValues : RequestBuilder_json(value)
    \/ \E window, refused \in BOOLEAN : RequestBuilder_send(window, refused)
    \/ \E window, refused \in BOOLEAN : Request_send(window, refused)
    \/ Fetch_reject
    \/ \E reply \in HostReplies : Fetch_resolve(reply)
    \/ \E value \in HostRequests : Request_from(value)
    \/ \E status \in StatusCodes : ResponseBuilder_new(status)
    \/ \E status \in StatusCodes : Response_builder(status)
    \/ \E status \in StatusCodes : ResponseBuilder_status(status)
    \/ \E text \in StatusTexts : ResponseBuilder_status_text(text)
    \/ \E headers \in HeaderMaps : ResponseBuilder_headers(headers)
    \/ \E body \in Bodies : ResponseBuilder_body(body)
    \/ \E text \in Texts : ResponseBuilder_text(text)
    \/ \E stream \in Streams : ResponseBuilder_readable_stream(stream)
    \/ \E json \in JsonValues : ResponseBuilder_json(json)
    \/ ResponseBuilder_build
    \/ \E raw \in HostReplies : Response_from_raw(raw)
    \/ \E i \in Wrappers : Response_into_raw(i)
    \/ \E i \in Wrappers : Response_rewrap(i)
    \/ \E i \in Wrappers : Response_body(i)
    \/ \E i \in Wrappers : Response_text(i)
    \/ \E i \in Wrappers : Response_json(i)
    \/ \E m \in CodecMaps : Codec_round_trip(m)
    \/ \E h \in CodecLists : Codec_decode(h)

Spec == Init /\ [][Next]_vars

----------------------------------------------------------------------------
(* The claims. *)

\* the policy fields RequestBuilder::new documents
Defaults(init) ==
    /\ init.cache = "Default"
    /\ init.credentials = "Omit"
    /\ init.integrity = ""
    /\ init.mode = "Cors"
    /\ init.redirect = "Follow"
    /\ init.referrer = "about:client"
    /\ init.referrer_policy = "None"

\* C1: a Request built by build() from a builder on which no setter was
\* called has every policy field at its documented default, an empty header
\* map and no body, whatever the method and the URL.
C1_DefaultsOnBuild ==
    (pc = "Request" /\ last.op = "build" /\ last.fresh) =>
        /\ Defaults(request.init)
        /\ request.init.headers = HeaderMap_new
        /\ request.init.body = NoBody

C1_Witness ==
    /\ pc = "Request"
    /\ last.op = "build"
    /\ last.fresh
    /\ request.init.method = "POST"
    /\ request.url = "/path"

\* C2: every step that is header(name, v) or a successful try_header(name, v)
\* leaves exactly the one value v under name, whatever was stored under it
\* before, and leaves the values under every other name as they were.
C2_HeaderOverwrites ==
    [][(pc' = "RequestBuilder" /\ last'.op \in {"header", "try_header"}) =>
          /\ builder'.init.headers[last'.name] = <<last'.value>>
          /\ \A n \in AllNames \ {last'.name} :
                 builder'.init.headers[n] = builder.init.headers[n]]_vars

C2_Witness ==
    /\ pc = "RequestBuilder"
    /\ last.op = "header"
    /\ last.many
    /\ builder.init.headers[last.name] = <<last.value>>
    /\ \E n \in Names \ {last.name} : builder.init.headers[n] # <<>>

\* C3: encoding a header map of valid names and values and decoding it back
\* completes and yields the same set of (name, value) pairs.
C3_RoundTrip ==
    codec.op = "round_trip" =>
        /\ codec.tag = "Ok"
        /\ Pairs(codec.out) = Pairs(codec.in)

\* C4: every Response value sees at most one body extraction; text() and
\* json() on a host body that was already read fail with an error; a read
\* that succeeds on a stream finds it unread and leaves it used, and a used
\* body stays used, so that at most one read of a body succeeds.
C4_SingleConsumption ==
    [][pc = "Response" =>
          /\ \A i \in Wrappers : resps'[i].n <= 1
          /\ (last'.op \in {"text", "json"} /\ host.body.used) =>
                 result'.tag = "Err"
          /\ (last'.op \in {"text", "json"} /\ result'.tag = "Ok"
                  /\ host.body.kind = "stream") =>
                 ~host.body.used /\ host'.body.used
          /\ host.body.used => host'.body.used]_vars

C4_Witness ==
    /\ pc = "Response"
    /\ result.op = "text"
    /\ result.tag = "Err"
    /\ host.body.used
    /\ Cardinality({i \in Wrappers : resps[i].n = 1}) = 2

\* C5: the accessors of a Response report the status, the status text and
\* the headers of the host response it was made from.
C5_Snapshot ==
    pc = "Response" =>
        \A i \in Wrappers : resps[i].st = "live" =>
            /\ Response_status_code(resps[i]) = host.status
            /\ Response_status_text(resps[i]) = host.statusText
            /\ Response_headers(resps[i]) = HeaderMap_collect(Headers_entries(host.headers))

\* C6: body() on a Response whose host response has status 200 and no body
\* completes.
C6_BodylessBodyCompletes ==
    (result.op = "body" /\ host.status = 200 /\ host.body.kind = "null") =>
        result.tag = "Ok"

\* the null-body statuses the claim names
C7_Statuses == {101, 204, 205, 304}

C8_JsonResponse ==
    [][(pc' = "Response" /\ last'.json # "") =>
          /\ \A i \in Wrappers : resps'[i].st = "live" =>
                 Response_headers(resps'[i])[CONTENT_TYPE] = <<APPLICATION_JSON>>
          /\ (last'.op = "text" /\ ~host.body.used) =>
                 /\ result'.tag = "Ok"
                 /\ result'.val = serde_json_to_string(last'.json).val]_vars

C8_Witness ==
    /\ pc = "Response"
    /\ last.json = "obj"
    /\ last.op = "text"
    /\ result.tag = "Ok"
    /\ result.val = "{\"a\":1}"
    /\ \E i \in Wrappers :
           /\ resps[i].init.headers[CONTENT_TYPE] = <<APPLICATION_JSON>>
           /\ resps[i].init.headers[X_A] # <<>>

\* C9: decoding a host header list that holds an entry whose value is not a
\* valid header value returns a decode error.
C9_DecodeError ==
    (codec.op = "decode"
         /\ \E n \in AllNames : \E i \in 1..Len(codec.in[n]) :
                HeaderValue_from_str(codec.in[n][i]).tag = "Err") =>
        codec.tag = "Err"

\* C10: send() ends in Ok(Response) or in Err carrying the host's value, and
\* never aborts.
C10_SendReturns ==
    result.op = "send" => result.tag \in {"Ok", "Err"}

\* C11: when serde_json::to_string fails inside RequestBuilder::json or
\* ResponseBuilder::json, the call returns a serialization error to the
\* caller (and no Request or Response with a body comes out of it).
C11_JsonFailurePropagates ==
    result.op \in {"RequestBuilder::json", "ResponseBuilder::json"} =>
        /\ result.tag = "Err"
        /\ result.val = "SerdeError"
        /\ pc = "done"

\* the fields of a RequestInit: the seven policy fields and the rest
PolicyFields ==
    {"cache", "credentials", "integrity", "mode", "redirect", "referrer",
     "referrer_policy"}

InitFields == PolicyFields \cup {"method", "headers", "body"}

\* C12: every step of a RequestBuilder changes the field it names and no
\* other: a policy setter stores the given value in its own field; header,
\* try_header and headers change only the header map; body(b) and text(t)
\* give a Request with the given body and the builder's url, method, headers
\* and policy fields; build() gives a Request with the builder's state and no
\* body.
C12_FrameEffect ==
    [][pc = "RequestBuilder" =>
          /\ (pc' = "RequestBuilder" /\ last'.op \in PolicyFields) =>
                 /\ builder'.url = builder.url
                 /\ builder'.init[last'.op] = last'.value
                 /\ \A f \in InitFields \ {last'.op} :
                        builder'.init[f] = builder.init[f]
          /\ (pc' = "RequestBuilder"
                  /\ last'.op \in {"header", "try_header", "headers"}) =>
                 /\ builder'.url = builder.url
                 /\ \A f \in InitFields \ {"headers"} :
                        builder'.init[f] = builder.init[f]
          /\ (pc' = "Request" /\ last'.op = "body") =>
                 /\ request'.url = builder.url
                 /\ request'.init.body = last'.value
                 /\ last'.value \in Bodies
                 /\ \A f \in InitFields \ {"body"} :
                        request'.init[f] = builder.init[f]
          /\ (pc' = "Request" /\ last'.op = "build") =>
                 /\ request'.url = builder.url
                 /\ request'.init = builder.init
                 /\ request'.init.body = NoBody]_vars

C12_Witness ==
    /\ pc = "Request"
    /\ last.op = "body"
    /\ request.init.body = Body_Text("x")
    /\ request.init.method = "POST"
    /\ request.init.headers[X_A] = <<VA>>
    /\ request.init.cache # RequestInit_new("POST").cache
    /\ request.init.referrer_policy # RequestInit_new("POST").referrer_policy

\* the header map a ResponseBuilder chain leaves when the last writer wins:
\* the map of the most recent headers call, with Content-Type replaced by
\* application/json if json was called after it
LastWriterHeaders(chain) ==
    IF chain.json THEN HeaderMap_insert(chain.headers, CONTENT_TYPE, APPLICATION_JSON)
    ELSE chain.headers

\* C13: in a ResponseBuilder chain the last writer wins per field: the
\* builder's body is the one given by the most recent body, text,
\* readable_stream or json call, its header map is the one given by the most
\* recent headers call with Content-Type replaced by application/json only if
\* json was called after it, and build() returns what the host makes of
\* these; so a Response built with headers(h) after json(v) does not carry
\* the Content-Type of json, and one built with a body call after json(v)
\* carries application/json whatever the body.
C13_LastWriterWins ==
    [][pc = "ResponseBuilder" =>
          LET given == [body |-> last.chain.body,
                        init |-> [rbuilder.init EXCEPT
                                      !.headers = LastWriterHeaders(last.chain)]]
              made == build_response(given)
          IN  /\ rbuilder.body = last.chain.body
              /\ rbuilder.init.headers = LastWriterHeaders(last.chain)
              /\ last'.op = "ResponseBuilder::build" =>
                     /\ made.tag # "Ok" =>
                            /\ result'.tag = made.tag
                            /\ result'.val = made.val
                     /\ made.tag = "Ok" =>
                            /\ host' = made.raw
                            /\ pc' = "Response"
                            /\ last.chain.json =>
                                   Response_headers(resps'[1])[CONTENT_TYPE]
                                       = <<APPLICATION_JSON>>
                            /\ (~last.chain.json
                                    /\ last.chain.headers[CONTENT_TYPE] = <<>>) =>
                                   Response_headers(resps'[1])[CONTENT_TYPE]
                                       # <<APPLICATION_JSON>>]_vars

C13_Witness ==
    /\ pc = "Response"
    /\ last.op = "ResponseBuilder::build"
    /\ host.body = Stream("x")
    /\ Response_headers(resps[1])[CONTENT_TYPE] = <<APPLICATION_JSON>>
    /\ Response_headers(resps[1])[X_A] = <<VA>>

=============================================================================
